---- MODULE Spec2Model ----
(***************************************************************************)
(* The two Streamlit pages of TextSummarizationBOT: app.py (variant 1, the *)
(* medical entity extractor) and app2.py (variant 2, the named-entity      *)
(* extractor).  A Streamlit page is a script that is re-executed from the  *)
(* top on every user interaction; one execution ("run") is one action of   *)
(* this model, cut only where the script blocks inside llm.invoke.         *)
(* Python strings are TLA+ strings; emoji prefixes of labels and messages  *)
(* are left out of the message texts (they are not ASCII).                 *)
(***************************************************************************)
EXTENDS Integers, Sequences, FiniteSets, TLC

\* ------------------------------------------------------------ bounds
\* Longest text the user types into the text box.
MaxLen == 2

\* Characters the user types: whitespace, a letter both templates use,
\* and a letter neither template uses.
Alphabet == {" ", "e", "q"}

\* ------------------------------------------------- program constants
\* ChatGroq(max_retries=...) of app.py and app2.py.
MaxRetries1 == 2
MaxRetries2 == 3

\* ------------------------------------------------------------ strings
RECURSIVE Texts(_)
Texts(n) ==
    IF n = 0 THEN {""}
    ELSE LET shorter == Texts(n - 1)
         IN  shorter \cup {t \o c : t \in shorter, c \in Alphabet}

\* str.isspace of one character.
IsSpace(c) == c \in {" ", "\t", "\n", "\r"}

\* str.strip(): whitespace removed at both ends.
RECURSIVE LStrip(_)
LStrip(s) ==
    IF Len(s) > 0 /\ IsSpace(SubSeq(s, 1, 1)) THEN LStrip(Tail(s)) ELSE s

RECURSIVE RStrip(_)
RStrip(s) ==
    IF Len(s) > 0 /\ IsSpace(SubSeq(s, Len(s), Len(s)))
    THEN RStrip(SubSeq(s, 1, Len(s) - 1))
    ELSE s

\* Strip without the stripping: whitespace counts as text.
StripNothing(s) == s

Strip(s) == LStrip(RStrip(s))

\* Python truthiness of a str (None is modelled as "").
Truthy(s) == s # ""

\* Start positions of sub in s (overlapping occurrences included).
Occurrences(sub, s) ==
    {i \in 1..(Len(s) - Len(sub) + 1) : SubSeq(s, i, i + Len(sub) - 1) = sub}

Count(sub, s) == Cardinality(Occurrences(sub, s))

\* ---------------------------------------------------------- templates
template ==
    "You are a medical expert and good at English. Extract all the medical entities from the given tweet and assign the appropriate medical entity labels.\n"
    \o "\n"
    \o "Input text: {text}\n"
    \o "\n"
    \o "Please format your response as a markdown table with the following columns:\n"
    \o "| Entity | Label | Context |\n"
    \o "\n"
    \o "Only include medical terms, conditions, symptoms, medications, or healthcare-related entities.\n"

PROMPT_TEMPLATE ==
    "You are an expert in entity extraction and natural language processing. \n"
    \o "Extract named entities from the given text, focusing on people, organizations, locations, and associated geographic information.\n"
    \o "\n"
    \o "Input text: {text}\n"
    \o "\n"
    \o "Provide a structured analysis in the following markdown table format:\n"
    \o "| Name | Entity_Type | City | Country | Country_Code |\n"
    \o "\n"
    \o "Guidelines:\n"
    \o "- Name: The extracted entity name\n"
    \o "- Entity_Type: One of [PERSON, ORGANIZATION, LOCATION]\n"
    \o "- City: Associated city (if applicable)\n"
    \o "- Country: Full country name (if applicable)\n"
    \o "- Country_Code: ISO 2-letter country code (if applicable)\n"
    \o "\n"
    \o "Example:\n"
    \o "For text: \"Tim Cook from Apple in Cupertino, USA announced...\"\n"
    \o "| Tim Cook | PERSON | Cupertino | United States | US |\n"
    \o "| Apple | ORGANIZATION | Cupertino | United States | US |\n"
    \o "\n"
    \o "Only include relevant named entities. Leave fields blank with '-' if not applicable.\n"
    \o "Ensure all country codes are valid ISO 2-letter codes."

\* The substitution point of input_variables=['text'].
Placeholder == "{text}"

\* Format that trims the value before substituting it.
FormatStripped(tpl, text) ==
    LET at == Occurrences(Placeholder, tpl)
        i == CHOOSE j \in at : \A k \in at : j <= k
    IN  IF at = {} THEN tpl
        ELSE SubSeq(tpl, 1, i - 1) \o Strip(text)
             \o SubSeq(tpl, i + Len(Placeholder), Len(tpl))

\* PromptTemplate.format(text=...): every {text} field of the template is
\* replaced by the value; the value itself is not scanned again.
RECURSIVE Format(_, _)
Format(tpl, text) ==
    LET at == Occurrences(Placeholder, tpl)
    IN  IF at = {} THEN tpl
        ELSE LET i == CHOOSE j \in at : \A k \in at : j <= k
             IN  SubSeq(tpl, 1, i - 1) \o text
                 \o Format(SubSeq(tpl, i + Len(Placeholder), Len(tpl)), text)

\* ------------------------------------------------------- environment
\* Values of os.getenv("GROQ_API_KEY"); None (unset) is modelled as "".
ApiKeys == {"", "gsk_key"}

\* What constructing ChatGroq does: "" for success, else the text of the
\* exception it raises.  The arguments are literals and the key read from
\* the environment, so the outcome is the same on every run of a session.
ChatGroqOutcomes == {"", "validation error"}

\* Completion texts the endpoint returns.
Completions == {"| A | B | C |", " | q |\n"}

\* What llm.invoke returns: a message object with a content attribute
\* (str() of it is its repr), or, from a mocked client, a bare string,
\* which has no content attribute and is its own str().
Responses ==
    {[has_content |-> TRUE, content |-> c, str |-> "content='" \o c \o "'"] :
        c \in Completions}
    \cup {[has_content |-> FALSE, content |-> "", str |-> c] : c \in Completions}

\* Failures of one request attempt that the client retries (up to
\* max_retries) and failures it raises at once.
Transient == {"Request timed out."}
Fatal == {"Invalid API Key"}

VARIABLES
    variant,          \* 1: app.py, 2: app2.py
    groq_api_key,     \* os.getenv("GROQ_API_KEY")
    chatgroq_exc,     \* outcome of ChatGroq(...), see ChatGroqOutcomes
    input_area,       \* content of the text box (widget state, kept across runs)
    analyze_button,   \* st.button("Analyze") in the latest run
    clear_button,     \* st.button("Clear") in the latest run (variant 2)
    pc,               \* "start", "idle" (run ended), "invoke", "stopped" (st.stop)
    page,             \* elements the latest run has put on the page, in order
    formatted_prompt, \* content of the message handed to llm.invoke
    attempts,         \* request attempts of the client in the latest run
    response          \* <<r>> once llm.invoke has returned r in the latest run

vars == <<variant, groq_api_key, chatgroq_exc, input_area, analyze_button,
          clear_button, pc, page, formatted_prompt, attempts, response>>

env == <<variant, groq_api_key, chatgroq_exc>>

\* ------------------------------------------------------ page elements
El(kind, body) == [kind |-> kind, body |-> body]

Has(p, kind) == \E i \in 1..Len(p) : p[i].kind = kind

HasEl(p, kind, body) == \E i \in 1..Len(p) : p[i] = El(kind, body)

MaxRetries == IF variant = 1 THEN MaxRetries1 ELSE MaxRetries2

KeyMissingMsg == "GROQ_API_KEY not found. Please check your environment variables."

WarningMsg == "Please enter some text to analyze."

InitErrorMsg(e) ==
    IF variant = 1 THEN "Error initializing ChatGroq: " \o e
    ELSE "Failed to initialize LLM: " \o e

ProcessingErrorMsg(e) ==
    IF variant = 1 THEN "Error processing text: " \o e
    ELSE "Error during processing: " \o e

RetryHint ==
    IF variant = 1 THEN "Please try again or check your API configuration."
    ELSE "Please try again or check your input text."

\* The title, the introduction, the text box and the buttons.
Widgets ==
    IF variant = 1
    THEN << El("title", "Medical Entity Extractor"),
            El("write", "This tool extracts medical entities from text using the Groq LLM API."),
            El("text_area", "Enter the text to analyze:"),
            El("button", "Analyze") >>
    ELSE << El("title", "Advanced Entity Extractor"),
            El("markdown", "This tool extracts named entities from text and identifies associated geographic information."),
            El("text_area", "Enter text to analyze:"),
            El("button", "Analyze"),
            El("button", "Clear") >>

Spinner == El("spinner", "Analyzing text...")

\* Result that always takes str(response).
ResultAlwaysStr(r) == r.str

\* response.content if hasattr(response, 'content') else str(response)
Result(r) == IF r.has_content THEN r.content ELSE r.str

\* The results area: subheader, st.markdown(result), (variant 2) the
\* processing time, st.download_button(data=result).
Results(result) ==
    IF variant = 1
    THEN << El("subheader", "Extracted Medical Entities"),
            El("markdown", result),
            El("download_button", result) >>
    ELSE << El("subheader", "Extracted Entities"),
            El("markdown", result),
            El("info", "Processing completed"),
            El("download_button", result) >>

\* ------------------------------------------------------- script runs
\* The run reaches llm.invoke(messages) and blocks in it.
Invoke(text) ==
    /\ pc' = "invoke"
    /\ page' = Widgets \o <<Spinner>>
    /\ formatted_prompt' =
           Format(IF variant = 1 THEN template ELSE PROMPT_TEMPLATE, text)

\* The run ends having put the elements els under the widgets.
Ends(els) ==
    /\ pc' = "idle"
    /\ page' = Widgets \o els
    /\ formatted_prompt' = ""

\* st.error(...) and st.stop() before any widget is created.
Stops(msg) ==
    /\ pc' = "stopped"
    /\ page' = <<El("error", msg)>>
    /\ formatted_prompt' = ""

\* RunApp1 whose handler tests the text but not the button.
RunApp1_NoButtonCheck(text, analyze) ==
    /\ analyze_button' = analyze
    /\ clear_button' = FALSE
    /\ attempts' = 0
    /\ response' = <<>>
    /\ IF ~Truthy(groq_api_key) THEN Stops(KeyMissingMsg)
       ELSE IF chatgroq_exc # "" THEN Stops(InitErrorMsg(chatgroq_exc))
       ELSE IF Truthy(Strip(text)) THEN Invoke(text)
       ELSE Ends(<<El("warning", WarningMsg)>>)

\* app.py, top to bottom, with the text box holding text.
RunApp1(text, analyze) ==
    /\ analyze_button' = analyze
    /\ clear_button' = FALSE
    /\ attempts' = 0
    /\ response' = <<>>
    /\ IF ~Truthy(groq_api_key) THEN Stops(KeyMissingMsg)
       ELSE IF chatgroq_exc # "" THEN Stops(InitErrorMsg(chatgroq_exc))
       ELSE IF ~analyze THEN Ends(<<>>)
       ELSE IF Truthy(Strip(text)) THEN Invoke(text)
       ELSE Ends(<<El("warning", WarningMsg)>>)

\* process_text that goes on after a failed ChatGroq construction.
process_text_IgnoresInitFailure(text) ==
    IF ~Truthy(groq_api_key) THEN Ends(<<El("error", KeyMissingMsg)>>)
    ELSE Invoke(text)

\* process_text without the test of self.api_key.
process_text_NoKeyCheck(text) ==
    IF chatgroq_exc # "" THEN Ends(<<El("error", InitErrorMsg(chatgroq_exc))>>)
    ELSE Invoke(text)

\* EntityExtractor.process_text up to llm.invoke.
process_text(text) ==
    IF ~Truthy(groq_api_key) THEN Ends(<<El("error", KeyMissingMsg)>>)
    ELSE IF chatgroq_exc # "" THEN Ends(<<El("error", InitErrorMsg(chatgroq_exc))>>)
    ELSE Invoke(text)

\* app2.py main() with neither or the Analyze button pressed.
RunApp2(text, analyze) ==
    /\ analyze_button' = analyze
    /\ clear_button' = FALSE
    /\ attempts' = 0
    /\ response' = <<>>
    /\ IF analyze /\ Truthy(Strip(text)) THEN process_text(text)
       ELSE IF analyze THEN Ends(<<El("warning", WarningMsg)>>)
       ELSE Ends(<<>>)

Run(text, analyze) ==
    IF variant = 1 THEN RunApp1(text, analyze) ELSE RunApp2(text, analyze)

\* ------------------------------------------------------------ actions
Init ==
    /\ variant \in {1, 2}
    /\ groq_api_key \in ApiKeys
    /\ chatgroq_exc \in ChatGroqOutcomes
    /\ input_area = ""
    /\ analyze_button = FALSE
    /\ clear_button = FALSE
    /\ pc = "start"
    /\ page = <<>>
    /\ formatted_prompt = ""
    /\ attempts = 0
    /\ response = <<>>

\* The browser opens the page: the first run, no button pressed.
Load ==
    /\ pc = "start"
    /\ Run(input_area, FALSE)
    /\ UNCHANGED <<env, input_area>>

\* The user changes the text box to t, which reruns the script.
Edit(t) ==
    /\ pc = "idle"
    /\ Has(page, "text_area")
    /\ t # input_area
    /\ input_area' = t
    /\ Run(t, FALSE)
    /\ UNCHANGED env

\* The user presses Analyze.
PressAnalyze ==
    /\ pc = "idle"
    /\ HasEl(page, "button", "Analyze")
    /\ Run(input_area, TRUE)
    /\ UNCHANGED <<env, input_area>>

\* The user presses Clear and the assignment to st.session_state.input_area
\* is refused: Streamlit raises StreamlitAPIException for a key whose widget
\* this run has already created, the run ends there and the text is kept.
ClearRaises ==
    /\ pc = "idle"
    /\ HasEl(page, "button", "Clear")
    /\ analyze_button' = FALSE
    /\ clear_button' = TRUE
    /\ attempts' = 0
    /\ response' = <<>>
    /\ Ends(<<El("exception", "st.session_state.input_area cannot be modified after the widget with key input_area is instantiated.")>>)
    /\ UNCHANGED <<env, input_area>>

\* The user presses Clear and the assignment is accepted: the text box is
\* emptied and st.experimental_rerun() runs the script again, no button
\* pressed.
ClearReruns ==
    /\ pc = "idle"
    /\ HasEl(page, "button", "Clear")
    /\ input_area' = ""
    /\ Run("", FALSE)
    /\ UNCHANGED env

\* One request attempt succeeds: llm.invoke returns r, the results are shown.
AttemptReturns(r) ==
    /\ pc = "invoke"
    /\ attempts' = attempts + 1
    /\ response' = <<r>>
    /\ Ends(Results(Result(r)))
    /\ UNCHANGED <<env, input_area, analyze_button, clear_button>>

\* AttemptRetried with one retry too many.
AttemptRetriedOffByOne ==
    /\ pc = "invoke"
    /\ attempts <= MaxRetries
    /\ attempts' = attempts + 1
    /\ UNCHANGED <<env, input_area, analyze_button, clear_button, pc, page,
                   formatted_prompt, response>>

\* One request attempt fails transiently and a retry is left.
AttemptRetried ==
    /\ pc = "invoke"
    /\ attempts < MaxRetries
    /\ attempts' = attempts + 1
    /\ UNCHANGED <<env, input_area, analyze_button, clear_button, pc, page,
                   formatted_prompt, response>>

\* AttemptRaises without the except clause: the exception leaves the
\* script and Streamlit shows its traceback.
AttemptRaisesUncaught(e) ==
    /\ pc = "invoke"
    /\ e \in (IF attempts = MaxRetries THEN Transient \cup Fatal ELSE Fatal)
    /\ attempts' = attempts + 1
    /\ Ends(<<El("exception", e)>>)
    /\ UNCHANGED <<env, input_area, analyze_button, clear_button, response>>

\* One request attempt fails for good (a fatal error, or a transient one
\* with the retries used up): llm.invoke raises e, the handler's except
\* clause shows it.
AttemptRaises(e) ==
    /\ pc = "invoke"
    /\ e \in (IF attempts = MaxRetries THEN Transient \cup Fatal ELSE Fatal)
    /\ attempts' = attempts + 1
    /\ Ends(<<El("error", ProcessingErrorMsg(e)), El("info", RetryHint)>>)
    /\ UNCHANGED <<env, input_area, analyze_button, clear_button, response>>

ClientStep ==
    \/ \E r \in Responses : AttemptReturns(r)
    \/ AttemptRetried
    \/ \E e \in Transient \cup Fatal : AttemptRaises(e)

Next ==
    \/ Load
    \/ \E t \in Texts(MaxLen) : Edit(t)
    \/ PressAnalyze
    \/ ClearRaises
    \/ ClearReruns
    \/ \E r \in Responses : AttemptReturns(r)
    \/ AttemptRetried
    \/ \E e \in Transient \cup Fatal : AttemptRaises(e)

Spec == Init /\ [][Next]_vars

\* Each request attempt ends within the configured timeout, so a run that
\* is inside llm.invoke keeps taking client steps.
FairSpec == Spec /\ WF_vars(ClientStep)

\* ------------------------------------------------------------- claims
\* A text with nothing but whitespace in it (the empty text included).
Blank(s) == \A i \in 1..Len(s) : SubSeq(s, i, i) \in {" ", "\t", "\n", "\r"}

Exceptions == Transient \cup Fatal

ThisTemplate == IF variant = 1 THEN template ELSE PROMPT_TEMPLATE

\* The completion text carried by what the client returned.
CompletionOf(r) == IF r.has_content THEN r.content ELSE r.str

\* C1: every press of Analyze while the text box is empty or whitespace
\* only ends the run with the "Please enter some text to analyze." warning
\* on the page and without a request: llm.invoke is not entered, no prompt
\* is formatted, no attempt is made.  Both variants, any reachable state.
C1_BlankAnalyzeWarnsWithoutCall ==
    [][(PressAnalyze /\ Blank(input_area)) =>
          /\ pc' = "idle"
          /\ HasEl(page', "warning", WarningMsg)
          /\ attempts' = 0
          /\ formatted_prompt' = ""
          /\ response' = <<>>]_vars

C1_Witness ==
    /\ analyze_button
    /\ input_area = " "
    /\ pc = "idle"
    /\ HasEl(page, "warning", WarningMsg)

\* C2 (as claimed): with GROQ_API_KEY unset, neither variant ever offers
\* the text box or the Analyze button.
C2_NoInputWithoutKey ==
    ~Truthy(groq_api_key) =>
        /\ ~Has(page, "text_area")
        /\ ~HasEl(page, "button", "Analyze")

\* C3: when llm.invoke raises, the run ends (no stop, no spinner left)
\* with the error message made of the handler's prefix and the raw error
\* text, followed by the retry hint, and with the text box and the Analyze
\* button on the page; and an Analyze press with non-blank text on a page
\* showing such an error enters llm.invoke again.
C3_FailureShownAndRetryAccepted ==
    [][/\ (pc = "invoke" /\ pc' # "invoke" /\ response' = <<>>) =>
              /\ pc' = "idle"
              /\ \E e \in Exceptions :
                     /\ HasEl(page', "error", ProcessingErrorMsg(e))
                     /\ Count(e, ProcessingErrorMsg(e)) = 1
              /\ HasEl(page', "info", RetryHint)
              /\ ~Has(page', "spinner")
              /\ Has(page', "text_area")
              /\ HasEl(page', "button", "Analyze")
       /\ (/\ HasEl(page, "info", RetryHint)
           /\ PressAnalyze
           /\ ~Blank(input_area)) =>
              /\ pc' = "invoke"
              /\ attempts' = 0
              /\ formatted_prompt' = Format(ThisTemplate, input_area)]_vars

C3_Witness ==
    /\ pc = "idle"
    /\ HasEl(page, "error", ProcessingErrorMsg("Request timed out."))
    /\ HasEl(page, "info", RetryHint)
    /\ ~Blank(input_area)
    /\ HasEl(page, "button", "Analyze")

\* C4: whenever results are on the page, the body given to st.markdown
\* right under the subheader and the data of every download button are
\* exactly the completion text the client returned; and results are on the
\* page whenever the client returned.
C4_DisplayAndDownloadAreCompletion ==
    /\ response # <<>> <=> Has(page, "subheader")
    /\ response # <<>> <=> Has(page, "download_button")
    /\ \A i \in 1..Len(page) :
           /\ page[i].kind = "subheader" =>
                  /\ i < Len(page)
                  /\ page[i + 1] = El("markdown", CompletionOf(response[1]))
           /\ page[i].kind = "download_button" =>
                  page[i].body = CompletionOf(response[1])

C4_Witness ==
    /\ response # <<>>
    /\ response[1].has_content
    /\ CompletionOf(response[1]) = " | q |\n"
    /\ HasEl(page, "markdown", " | q |\n")
    /\ HasEl(page, "download_button", " | q |\n")

\* C5 (as claimed): a press of Clear in variant 2 leaves the text box
\* empty, and the next Analyze press takes the warning path.
C5_ClearEmptiesTextBox ==
    [][/\ (ClearRaises \/ ClearReruns) => input_area' = ""
       /\ (clear_button /\ PressAnalyze) =>
              HasEl(page', "warning", WarningMsg)]_vars

\* C6 (as claimed): the prompt handed to llm.invoke contains the input
\* text exactly once.
C6_TextExactlyOnce ==
    pc = "invoke" => Count(input_area, formatted_prompt) = 1

\* C6 (amended): the prompt handed to llm.invoke is the template with the
\* input text, verbatim, in the place of its single {text} field, so it
\* contains the text at least once; it contains it exactly once when the
\* text has a character that the template does not use.
C6_TextAtSubstitutionPoint ==
    pc = "invoke" =>
        LET tpl == ThisTemplate
            at == Occurrences(Placeholder, tpl)
            i == CHOOSE j \in at : TRUE
            n == Len(input_area)
        IN  /\ Cardinality(at) = 1
            /\ ~Blank(input_area)
            /\ SubSeq(formatted_prompt, 1, i - 1) = SubSeq(tpl, 1, i - 1)
            /\ SubSeq(formatted_prompt, i, i + n - 1) = input_area
            /\ SubSeq(formatted_prompt, i + n, Len(formatted_prompt))
                   = SubSeq(tpl, i + Len(Placeholder), Len(tpl))
            /\ Count(input_area, formatted_prompt) >= 1
            /\ (\E k \in 1..n : Count(SubSeq(input_area, k, k), tpl) = 0) =>
                   Count(input_area, formatted_prompt) = 1

C6_Witness ==
    /\ pc = "invoke"
    /\ input_area = "q "
    /\ Count(input_area, formatted_prompt) = 1

\* C7: a press makes one llm.invoke, inside which the client makes at most
\* 1 + max_retries request attempts (2 retries in variant 1, 3 in variant
\* 2); while the run is inside llm.invoke every step is one more attempt of
\* that same request; and every run that entered llm.invoke ends, with the
\* results or with the error on the page.
C7_AttemptsBoundedAndRunEnds ==
    /\ [](attempts <= 1 + (IF variant = 1 THEN MaxRetries1 ELSE MaxRetries2))
    /\ [][pc = "invoke" =>
             /\ attempts' = attempts + 1
             /\ formatted_prompt' \in {formatted_prompt, ""}
             /\ pc' \in {"invoke", "idle"}]_vars
    /\ [][attempts' # attempts => (pc = "invoke" \/ attempts' = 0)]_vars
    /\ (pc = "invoke") ~>
           (pc = "idle" /\ (Has(page, "subheader") \/ Has(page, "error")))

C7_Witness ==
    /\ variant = 2
    /\ attempts = 1 + MaxRetries2
    /\ pc = "idle"
    /\ HasEl(page, "error", ProcessingErrorMsg("Request timed out."))

\* C8: when constructing ChatGroq raises, no run enters llm.invoke, formats
\* a prompt or makes a request attempt; variant 1 shows "Error initializing
\* ChatGroq: <error>" and stops, variant 2 shows "Failed to initialize LLM:
\* <error>" on an Analyze press with non-blank text and ends the run.
C8_InitFailureShownNoCall ==
    (Truthy(groq_api_key) /\ chatgroq_exc # "") =>
        /\ pc # "invoke"
        /\ attempts = 0
        /\ formatted_prompt = ""
        /\ response = <<>>
        /\ (variant = 1 /\ pc # "start") =>
               /\ pc = "stopped"
               /\ page = <<El("error", "Error initializing ChatGroq: " \o chatgroq_exc)>>
        /\ (variant = 2 /\ analyze_button /\ ~Blank(input_area)) =>
               /\ pc = "idle"
               /\ HasEl(page, "error", "Failed to initialize LLM: " \o chatgroq_exc)

C8_Witness ==
    /\ variant = 2
    /\ Truthy(groq_api_key)
    /\ analyze_button
    /\ input_area = "qe"
    /\ HasEl(page, "error", "Failed to initialize LLM: validation error")

\* C9: llm.invoke is entered only by an Analyze press with non-blank text
\* on an ended run; while a request is in flight no other run starts (the
\* pressed text and the prompt stay as they are); the call is followed by
\* exactly one of the results and the error, on an ended run that offers
\* Analyze again; and what a run does starts from nothing of the run before:
\* no attempts, no response, a prompt made of the current text alone.
C9_OneInteractionAtATime ==
    [][/\ (pc # "invoke" /\ pc' = "invoke") =>
              /\ pc = "idle"
              /\ HasEl(page, "button", "Analyze")
              /\ analyze_button'
              /\ input_area' = input_area
              /\ ~Blank(input_area)
              /\ attempts' = 0
              /\ response' = <<>>
              /\ formatted_prompt' = Format(ThisTemplate, input_area)
       /\ (pc = "invoke" /\ pc' = "invoke") =>
              UNCHANGED <<input_area, analyze_button, formatted_prompt, page>>
       /\ (pc = "invoke" /\ pc' # "invoke") =>
              /\ pc' = "idle"
              /\ Has(page', "subheader") # Has(page', "error")
              /\ HasEl(page', "button", "Analyze")
              /\ formatted_prompt' = ""
       /\ (pc # "invoke" /\ pc' # "invoke") =>
              /\ attempts' = 0
              /\ response' = <<>>
              /\ formatted_prompt' = ""
              /\ ~Has(page', "subheader")]_vars

C9_Witness ==
    /\ variant = 1
    /\ pc = "invoke"
    /\ attempts = 1
    /\ analyze_button

\* C10: without GROQ_API_KEY no run enters llm.invoke, formats a prompt or
\* makes a request attempt, and neither the results nor the download button
\* are ever on the page: variant 1 stops with the credential error, variant
\* 2 shows it on an Analyze press with non-blank text and ends the run.
C10_NoCallWithoutKey ==
    ~Truthy(groq_api_key) =>
        /\ pc # "invoke"
        /\ attempts = 0
        /\ formatted_prompt = ""
        /\ response = <<>>
        /\ ~Has(page, "subheader")
        /\ ~Has(page, "markdown") \/ variant = 2
        /\ ~Has(page, "download_button")
        /\ (variant = 1 /\ pc # "start") =>
               /\ pc = "stopped"
               /\ page = <<El("error", KeyMissingMsg)>>
        /\ (variant = 2 /\ analyze_button /\ ~Blank(input_area)) =>
               /\ pc = "idle"
               /\ HasEl(page, "error", KeyMissingMsg)

C10_Witness ==
    /\ variant = 2
    /\ ~Truthy(groq_api_key)
    /\ analyze_button
    /\ input_area = "e"
    /\ HasEl(page, "error", KeyMissingMsg)

====
